---- MODULE Spec2Model ----
(***************************************************************************)
(* The authorization and session layer of the MCP training server:         *)
(* the OAuth model callbacks (auth/oauth-model.ts), the OAuth handlers     *)
(* (auth/oauth-handlers.ts), the Bearer Gate (auth/oauth-wrapper.ts) and   *)
(* the session registry of the streamable HTTP endpoint (http-server.ts).  *)
(* Every `await` of the source is a scheduling point: the code between     *)
(* two awaits is one atomic step.                                          *)
(***************************************************************************)
EXTENDS Integers, Sequences, FiniteSets, Bags, TLC

VARIABLES
    clients,             \* oauth-model.ts: const clients = new Map()
    authorizationCodes,  \* oauth-model.ts: const authorizationCodes = new Map()
    accessTokens,        \* oauth-model.ts: const accessTokens = new Map()
    now,                 \* the wall clock, new Date(), in seconds
    nextCode,            \* number of authorization codes generated so far
    nextToken,           \* number of access tokens generated so far
    nextClient,          \* number of client ids generated by /register so far
    exch,                \* the POST /token requests in flight (a bag)
    issued,              \* code id -> the time the stored code was issued
    minted,              \* history: token id -> the exchange that minted it
    transports,          \* http-server.ts: const transports: Record<string, ...> = {}
    tr,                  \* the StreamableHTTPServerTransport objects created so far
    mcp,                 \* the /mcp requests in flight behind the gate (a bag)
    servers,             \* the McpServer instances: the transport each is connected to
    calls,               \* the countdown calls in progress, with what they sent (a bag)
    last                 \* the step just taken: request handled, response sent

oauthVars == <<clients, authorizationCodes, accessTokens, now, nextCode,
               nextToken, nextClient, exch, issued, minted>>

sessVars == <<transports, tr, mcp, servers, calls>>

vars == <<oauthVars, sessVars, last>>

----------------------------------------------------------------------------
(* Bounds of the model *)

MaxCodes == 1        \* authorization codes generated in one run
MaxTokens == 2       \* access tokens generated in one run
MaxClients == 1      \* dynamic registrations in one run
MaxExch == 2         \* POST /token requests in flight at once
MaxTransports == 2   \* transports created in one run
MaxMcp == 2          \* /mcp requests in flight at once
MaxCalls == 1        \* tool calls in progress at once on one transport
MaxText == 3         \* characters of a text given to slugify

(* Program constants *)

accessTokenLifetime == 3600
authorizationCodeLifetime == 600
maxSeconds == 15

----------------------------------------------------------------------------
(* Values *)

Undefined == "undefined"     \* JavaScript's undefined (and its `${...}` text)
Null == [null |-> TRUE]      \* JavaScript's null, as a record with no field
                             \* of any stored object

RegisteredId(n) == IF n = 1 THEN "mcp_1" ELSE "mcp_2"
DefaultCallback == "http://localhost:3000/callback"
CodeIds == 1..MaxCodes
TokenIds == 1..MaxTokens

\* the instants the clock visits: a code's expiry and the instant after it,
\* a token's expiry and the instant after it
Times == {0, authorizationCodeLifetime, 2 * authorizationCodeLifetime,
          accessTokenLifetime, accessTokenLifetime + authorizationCodeLifetime}

Put(map, k, v) == [x \in DOMAIN map \cup {k} |-> IF x = k THEN v ELSE map[x]]
Delete(map, k) == [x \in DOMAIN map \ {k} |-> map[x]]
Has(obj, f) == f \in DOMAIN obj
Empty == [x \in {} |-> 0]

\* base64url(sha256(verifier)): one-way and collision free on the verifiers
\* of the model, and never equal to a verifier.
S256(verifier) == CASE verifier = "v1" -> "E9Melhoa"
                    [] verifier = "v2" -> "Xs4Tqfzx"
                    [] OTHER -> "47DEQpj8"

\* pkce.getHashForCodeChallenge({method, verifier}) of the OAuth library
getHashForCodeChallenge(method, verifier) ==
    CASE method = "S256" -> S256(verifier)
      [] method = "plain" -> verifier
      [] OTHER -> Undefined

isValidMethod(method) == method \in {"S256", "plain"}

----------------------------------------------------------------------------
(* auth/oauth-model.ts *)

getClient(clientId) ==
    [id |-> clientId, grants |-> {"authorization_code"}, redirectUris |-> {"DYNAMIC"}]

\* a validation against the redirect URIs of the client record
validateRedirectUriListed(redirectUri, client) == redirectUri \in client.redirectUris

validateRedirectUri(redirectUri, client) == TRUE

registerClient(clientId, clientData) ==
    [id |-> clientId, grants |-> {"authorization_code"},
     redirectUris |-> IF Has(clientData, "redirect_uris")
                      THEN clientData.redirect_uris ELSE {DefaultCallback}]

\* the object stored under code.authorizationCode
\* a save that drops the redirect URI of the authorization request
saveAuthorizationCodeNoRedirect(code, client, user) ==
    [authorizationCode |-> code.authorizationCode,
     expiresAt |-> code.expiresAt,
     redirectUri |-> Undefined,
     scope |-> code.scope,
     client |-> client,
     user |-> user,
     codeChallenge |-> code.codeChallenge,
     codeChallengeMethod |-> code.codeChallengeMethod]

\* a save that stores an expiry beyond every time the clock reaches
saveAuthorizationCodeLate(code, client, user) ==
    [authorizationCode |-> code.authorizationCode,
     expiresAt |-> code.expiresAt + accessTokenLifetime + authorizationCodeLifetime,
     redirectUri |-> code.redirectUri,
     scope |-> code.scope,
     client |-> client,
     user |-> user,
     codeChallenge |-> code.codeChallenge,
     codeChallengeMethod |-> code.codeChallengeMethod]

saveAuthorizationCode(code, client, user) ==
    [authorizationCode |-> code.authorizationCode,
     expiresAt |-> code.expiresAt,
     redirectUri |-> code.redirectUri,
     scope |-> code.scope,
     client |-> client,
     user |-> user,
     codeChallenge |-> code.codeChallenge,
     codeChallengeMethod |-> code.codeChallengeMethod]

getAuthorizationCode(authorizationCode) ==
    IF authorizationCode \in DOMAIN authorizationCodes
    THEN authorizationCodes[authorizationCode] ELSE Null

\* the map after authorizationCodes.delete(code.authorizationCode)
\* a revoke that leaves the code in the store
revokeKeepsCode(code) == authorizationCodes

revokeAuthorizationCode(code) == Delete(authorizationCodes, code.authorizationCode)

\* the object stored under token.accessToken
\* a save that binds the token to no user of its own
saveTokenAnonymous(token, client, user) ==
    [accessToken |-> token.accessToken,
     accessTokenExpiresAt |-> token.accessTokenExpiresAt,
     scope |-> token.scope,
     client |-> client,
     user |-> [id |-> "anonymous"]]

saveToken(token, client, user) ==
    [accessToken |-> token.accessToken,
     accessTokenExpiresAt |-> token.accessTokenExpiresAt,
     scope |-> token.scope,
     client |-> client,
     user |-> user]

\* token.expiresAt && token.expiresAt < new Date()
tokenExpired(token) == Has(token, "expiresAt") /\ token.expiresAt < now

\* a lookup that hands a token out once: <<value, token map afterwards>>
getAccessTokenOnce(accessToken) ==
    IF accessToken \notin DOMAIN accessTokens THEN <<Null, accessTokens>>
    ELSE <<accessTokens[accessToken], Delete(accessTokens, accessToken)>>

\* <<the value returned, the token map afterwards>>
getAccessToken(accessToken) ==
    IF accessToken \notin DOMAIN accessTokens THEN <<Null, accessTokens>>
    ELSE IF tokenExpired(accessTokens[accessToken])
         THEN <<Null, Delete(accessTokens, accessToken)>>
         ELSE <<accessTokens[accessToken], accessTokens>>

----------------------------------------------------------------------------
(* State after construction *)

Init ==
    /\ clients = Empty
    /\ authorizationCodes = Empty
    /\ accessTokens = Empty
    /\ now = 0
    /\ nextCode = 0
    /\ nextToken = 0
    /\ nextClient = 0
    /\ exch = EmptyBag
    /\ issued = Empty
    /\ minted = Empty
    /\ transports = Empty
    /\ tr = <<>>
    /\ mcp = EmptyBag
    /\ servers = <<>>
    /\ calls = EmptyBag
    /\ last = [op |-> "start"]

\* the clock advances
Tick ==
    /\ \E t \in Times : t > now /\ now' = t
    /\ last' = [op |-> "tick"]
    /\ UNCHANGED <<clients, authorizationCodes, accessTokens, nextCode, nextToken,
                   nextClient, exch, issued, minted>>
    /\ UNCHANGED sessVars

----------------------------------------------------------------------------
(* Inputs: a base request and the requests that differ from it in one field *)

BaseQuery ==
    [client_id |-> "mcp_1", redirect_uri |-> "http://cb1",
     code_challenge |-> S256("v1"), code_challenge_method |-> "S256",
     state |-> "s1"]

AuthorizeQueries ==
    { BaseQuery,
      [BaseQuery EXCEPT !.client_id = "web"],
      [BaseQuery EXCEPT !.redirect_uri = "http://cb2"],
      [BaseQuery EXCEPT !.state = Undefined],
      [BaseQuery EXCEPT !.code_challenge = "v1", !.code_challenge_method = "plain"],
      [BaseQuery EXCEPT !.code_challenge = Undefined,
                        !.code_challenge_method = Undefined],
      [BaseQuery EXCEPT !.code_challenge_method = "S512"] }

\* the consent form's fields plus the button pressed
DecisionBodies ==
    { [authorize |-> a, client_id |-> q.client_id, redirect_uri |-> q.redirect_uri,
       code_challenge |-> q.code_challenge,
       code_challenge_method |-> q.code_challenge_method, state |-> q.state] :
      q \in AuthorizeQueries, a \in {"true", "false"} }

BaseToken(code) ==
    [code |-> code, redirect_uri |-> "http://cb1", code_verifier |-> "v1",
     client_id |-> "mcp_1"]

TokenBodies ==
    UNION { { BaseToken(c),
              [BaseToken(c) EXCEPT !.redirect_uri = "http://cb2"],
              [BaseToken(c) EXCEPT !.code_verifier = "v2"],
              [BaseToken(c) EXCEPT !.code_verifier = Undefined],
              [BaseToken(c) EXCEPT !.client_id = "web"] } : c \in CodeIds }

RegisterBodies == { [client_name |-> "vscode"], [redirect_uris |-> {"http://cb1"}] }

----------------------------------------------------------------------------
(* auth/oauth-handlers.ts: register *)

register(body) ==
    /\ nextClient < MaxClients
    /\ IF body = Null
       \* no parsed body: registerClient throws, the catch answers
       THEN /\ last' = [op |-> "register", body |-> body, status |-> 400,
                        error |-> "invalid_client_metadata"]
            /\ UNCHANGED <<clients, nextClient>>
       ELSE LET clientId == RegisteredId(nextClient + 1)
            IN /\ clients' = Put(clients, clientId, registerClient(clientId, body))
               /\ nextClient' = nextClient + 1
               /\ last' = [op |-> "register", body |-> body, status |-> 201,
                           client_id |-> clientId,
                           redirect_uris |-> IF Has(body, "redirect_uris")
                                             THEN body.redirect_uris
                                             ELSE {DefaultCallback},
                           grant_types |-> {"authorization_code"},
                           token_endpoint_auth_method |-> "none"]
    /\ UNCHANGED <<authorizationCodes, accessTokens, now, nextCode, nextToken,
                   exch, issued, minted>>
    /\ UNCHANGED sessVars

----------------------------------------------------------------------------
(* auth/oauth-handlers.ts: authorize *)

\* state = req.query.state || 'default'
stateOrDefault(state) == IF state = Undefined THEN "default" ELSE state

\* GET: the consent page
authorizeGet(query) ==
    /\ last' = [op |-> "authorize", method |-> "GET", query |-> query,
                status |-> 200, page |-> "consent",
                state |-> stateOrDefault(query.state)]
    /\ UNCHANGED <<oauthVars, sessVars>>

\* a denial redirected to the server's own callback
denyRedirectHome(body) ==
    [status |-> 302, location |-> DefaultCallback, error |-> "access_denied",
     state |-> body.state]

\* the redirect of a denial: `${redirectUri}?error=access_denied&state=${state}`
denyRedirect(body) ==
    [status |-> 302, location |-> body.redirect_uri, error |-> "access_denied",
     state |-> body.state]

\* a code object that drops the challenge
newAuthorizationCodeNoPkce(id, query) ==
    [authorizationCode |-> id,
     expiresAt |-> now + authorizationCodeLifetime,
     redirectUri |-> query.redirect_uri,
     scope |-> Undefined,
     codeChallenge |-> Undefined,
     codeChallengeMethod |-> Undefined]

\* the code object the library hands to model.saveAuthorizationCode
newAuthorizationCode(id, query) ==
    [authorizationCode |-> id,
     expiresAt |-> now + authorizationCodeLifetime,
     redirectUri |-> query.redirect_uri,
     scope |-> Undefined,
     codeChallenge |-> query.code_challenge,
     codeChallengeMethod |->
         IF query.code_challenge = Undefined THEN Undefined
         ELSE IF query.code_challenge_method = Undefined THEN "plain"
         ELSE query.code_challenge_method]

\* the library's authorize with the demo user: "ok" or the error it throws
authorizeError(query) ==
    IF ~validateRedirectUri(query.redirect_uri, getClient(query.client_id))
    THEN "invalid_client"
    ELSE IF query.code_challenge # Undefined
       /\ query.code_challenge_method # Undefined
       /\ ~isValidMethod(query.code_challenge_method)
    THEN "invalid_request" ELSE "ok"

\* every decision takes the approve branch
approvedAlways(body) == TRUE

\* does this decision take the approve branch: req.body.authorize === 'true'
approved(body) == body.authorize = "true"

\* POST: the user's decision
authorizeDecision(body) ==
    IF ~approved(body)
    THEN /\ last' = [op |-> "authorize", method |-> "POST", body |-> body]
                    @@ denyRedirect(body)
         /\ UNCHANGED <<oauthVars, sessVars>>
    ELSE LET query == [client_id |-> body.client_id,
                       redirect_uri |-> body.redirect_uri,
                       code_challenge |-> body.code_challenge,
                       code_challenge_method |-> body.code_challenge_method,
                       state |-> stateOrDefault(body.state)]
             client == getClient(query.client_id)
             user == [id |-> "demo-user"]
             id == nextCode + 1
         IN /\ nextCode < MaxCodes
            /\ clients' = Put(clients, client.id, client)
            /\ IF authorizeError(query) # "ok"
               THEN /\ last' = [op |-> "authorize", method |-> "POST", body |-> body,
                                status |-> 500, error |-> "Authorization failed"]
                    /\ UNCHANGED <<authorizationCodes, nextCode, issued>>
               ELSE /\ authorizationCodes' =
                          Put(authorizationCodes, id,
                              saveAuthorizationCode(newAuthorizationCode(id, query),
                                                    client, user))
                    /\ nextCode' = id
                    /\ issued' = Put(issued, id, now)
                    /\ last' = [op |-> "authorize", method |-> "POST", body |-> body,
                                status |-> 302, location |-> body.redirect_uri,
                                code |-> id, state |-> stateOrDefault(body.state)]
            /\ UNCHANGED <<accessTokens, now, nextToken, nextClient, exch, minted>>
            /\ UNCHANGED sessVars

----------------------------------------------------------------------------
(* auth/oauth-handlers.ts: token, through the library's authorization_code *)
(* grant: getClient, getAuthorizationCode and its checks; then             *)
(* revokeAuthorizationCode and the redirect_uri check; then saveToken.     *)

\* the checks on the code the model returned: "ok" or the error thrown
checkAuthorizationCode(code, client, body) ==
    IF code = Null THEN "invalid_grant"
    ELSE IF code.client.id # client.id THEN "invalid_grant"
    ELSE IF code.expiresAt < now THEN "invalid_grant"
    ELSE IF code.codeChallenge # Undefined
         THEN LET method == IF code.codeChallengeMethod = Undefined
                            THEN "plain" ELSE code.codeChallengeMethod
                  hash == getHashForCodeChallenge(method, body.code_verifier)
              IN IF body.code_verifier = Undefined THEN "invalid_grant"
                 ELSE IF hash = Undefined THEN "server_error"
                 ELSE IF code.codeChallenge # hash THEN "invalid_grant"
                 ELSE "ok"
    ELSE IF body.code_verifier # Undefined THEN "invalid_grant"
    ELSE "ok"

\* catch (error) { res.status(400).json({ error: 'invalid_grant' }) }
tokenError(body, step) ==
    [op |-> "token", body |-> body, step |-> step, status |-> 400,
     error |-> "invalid_grant"]

\* the handler has not answered yet
tokenPending(body, step) ==
    [op |-> "token", body |-> body, step |-> step, status |-> 0]

One(x) == SetToBag({x})

\* POST /token arrives: the client and the code are looked up and checked
tokenGet(body) ==
    /\ BagCardinality(exch) < MaxExch
    /\ nextToken + BagCardinality(exch) < MaxTokens
    /\ LET client == getClient(body.client_id)
           code == getAuthorizationCode(body.code)
       IN /\ clients' = Put(clients, client.id, client)
          /\ IF checkAuthorizationCode(code, client, body) # "ok"
             THEN /\ last' = tokenError(body, "get")
                  /\ UNCHANGED exch
             ELSE /\ exch' = exch (+) One([pc |-> "revoke", body |-> body,
                                           code |-> code])
                  /\ last' = tokenPending(body, "get")
    /\ UNCHANGED <<authorizationCodes, accessTokens, now, nextCode, nextToken,
                   nextClient, issued, minted>>
    /\ UNCHANGED sessVars

\* the code is revoked, then the request's redirect_uri is compared
tokenRevoke(x) ==
    /\ BagIn(x, exch) /\ x.pc = "revoke"
    /\ authorizationCodes' = revokeAuthorizationCode(x.code)
    /\ issued' = [c \in DOMAIN issued \cap DOMAIN authorizationCodes' |-> issued[c]]
    /\ IF x.code.redirectUri # Undefined /\ x.body.redirect_uri # x.code.redirectUri
       THEN /\ exch' = exch (-) One(x)
            /\ last' = tokenError(x.body, "revoke")
       ELSE /\ exch' = (exch (-) One(x)) (+) One([x EXCEPT !.pc = "save"])
            /\ last' = tokenPending(x.body, "revoke")
    /\ UNCHANGED <<clients, accessTokens, now, nextCode, nextToken, nextClient,
                   minted>>
    /\ UNCHANGED sessVars

\* the access token is generated, saved and returned
tokenSave(x) ==
    /\ BagIn(x, exch) /\ x.pc = "save"
    /\ LET code == x.code
           token == [accessToken |-> nextToken + 1,
                     accessTokenExpiresAt |-> now + accessTokenLifetime,
                     scope |-> code.scope]
           saved == saveToken(token, getClient(x.body.client_id), code.user)
       IN /\ accessTokens' = Put(accessTokens, token.accessToken, saved)
          /\ nextToken' = nextToken + 1
          /\ minted' = Put(minted, token.accessToken,
                           [code |-> code.authorizationCode,
                            expiresAt |-> saved.accessTokenExpiresAt,
                            at |-> now,
                            client |-> code.client,
                            user |-> code.user,
                            scope |-> code.scope,
                            code_verifier |-> x.body.code_verifier,
                            codeChallenge |-> code.codeChallenge,
                            codeChallengeMethod |-> code.codeChallengeMethod])
          /\ last' = [op |-> "token", body |-> x.body, step |-> "save",
                      status |-> 200, access_token |-> saved.accessToken,
                      token_type |-> "Bearer",
                      expires_in |-> saved.accessTokenExpiresAt - now,
                      scope |-> IF saved.scope = Undefined THEN "" ELSE saved.scope]
    /\ exch' = exch (-) One(x)
    /\ UNCHANGED <<clients, authorizationCodes, now, nextCode, nextClient, issued>>
    /\ UNCHANGED sessVars

----------------------------------------------------------------------------
(* auth/oauth-wrapper.ts: the Bearer Gate in front of /mcp *)

SessionIds == {"s1", "s2"}

\* An Authorization header is the sequence of its space separated parts.
NoHeader == <<>>
Bearer(token) == <<"Bearer", token>>
Basic == <<"Basic", 0>>

\* authHeader.startsWith('Bearer ')
startsWithBearer(authHeader) == Len(authHeader) >= 1 /\ authHeader[1] = "Bearer"
\* authHeader.substring(7)
substring7(authHeader) == authHeader[2]

\* a detection that trusts the declared client name of any message
isVSCodeClientAnyMessage(req) ==
    \/ req.userAgent = "node"
    \/ req.body.clientName = "Visual Studio Code"

isVSCodeClient(req) ==
    \/ req.userAgent = "node"
    \/ /\ req.body.method = "initialize"
       /\ req.body.clientName # Undefined
       /\ req.body.clientName = "Visual Studio Code"

metadataUrl == "http://localhost:3000/.well-known/oauth-protected-resource"

\* a header that always carries the standard parameter and adds the
\* non-standard one for VS Code
createWwwAuthenticateBoth(req, errorDescription) ==
    <<  <<"realm", "mcp">>, <<"resource_metadata", metadataUrl>>  >>
    \o (IF isVSCodeClient(req)
        THEN << <<"resource_metadata_url", metadataUrl>> >>
        ELSE << >>)

\* the header value, as the sequence of its parameters
createWwwAuthenticate(req, errorDescription) ==
    <<  <<"realm", "mcp">>  >>
    \o (IF errorDescription # Undefined
        THEN << <<"error", "invalid_token">>,
                <<"error_description", errorDescription>> >>
        ELSE << >>)
    \o (IF isVSCodeClient(req)
        THEN << <<"resource_metadata_url", metadataUrl>> >>
        ELSE << <<"resource_metadata", metadataUrl>> >>)

\* req.body?.id || null
idOrNull(body) == IF body.id = Undefined \/ body.id = "0" THEN "null" ELSE body.id

send401(req, errorDescription) ==
    [status |-> 401,
     wwwAuthenticate |-> createWwwAuthenticate(req, errorDescription),
     cacheControl |-> "no-cache, no-store, must-revalidate",
     jsonrpc |-> "2.0",
     error |-> [code |-> -32001,
                message |-> IF errorDescription = Undefined
                            THEN "Authentication required" ELSE errorDescription],
     id |-> idOrNull(req.body)]

\* a gate that lets every bearer header pass and attaches what it found
authenticateRequestAnyBearer(req) ==
    IF req.authorization = NoHeader \/ ~startsWithBearer(req.authorization)
    THEN [next |-> FALSE, tokens |-> accessTokens,
          response |-> send401(req, "Missing Authorization header")]
    ELSE LET got == getAccessToken(substring7(req.authorization))
         IN [next |-> TRUE, tokens |-> got[2],
             auth |-> IF got[1] = Null THEN Null
                      ELSE [user |-> got[1].user, client |-> got[1].client]]

\* What the gate decides: next() with req.auth set, or the 401 to send;
\* tokens is the token map after model.getAccessToken.
authenticateRequest(req) ==
    IF req.authorization = NoHeader \/ ~startsWithBearer(req.authorization)
    THEN [next |-> FALSE, tokens |-> accessTokens,
          response |-> send401(req, "Missing Authorization header")]
    ELSE LET got == getAccessToken(substring7(req.authorization))
         IN IF got[1] = Null
            THEN [next |-> FALSE, tokens |-> got[2],
                  response |-> send401(req, "Invalid or expired access token")]
            ELSE [next |-> TRUE, tokens |-> got[2],
                  auth |-> [user |-> got[1].user, client |-> got[1].client]]

\* a request for /mcp arrives: app.use('/mcp', authenticateRequest)
mcpArrive(req) ==
    LET gate == authenticateRequest(req)
    IN /\ accessTokens' = gate.tokens
       /\ IF gate.next
          THEN /\ BagCardinality(mcp) < MaxMcp
               /\ mcp' = mcp (+) One([pc |-> "next", req |-> req, auth |-> gate.auth])
               /\ last' = [op |-> "mcp", step |-> "gate", req |-> req, status |-> 0]
          ELSE /\ mcp' = mcp
               /\ last' = [op |-> "mcp", step |-> "gate", req |-> req] @@ gate.response
       /\ UNCHANGED <<clients, authorizationCodes, now, nextCode, nextToken,
                      nextClient, exch, issued, minted, transports, tr,
                      servers, calls>>

----------------------------------------------------------------------------
(* http-server.ts: the session registry, and the SDK transport it drives *)

\* sessionIdGenerator: () => Math.random().toString(36).substring(2):
\* the values it may return
sessionIdGenerator == SessionIds

NewTransport(rivals) ==
    [sessionId |-> Undefined, initialized |-> FALSE, closed |-> FALSE,
     rivals |-> rivals]

Live(t) == t \in 1..Len(tr) /\ ~tr[t].closed

\* an onclose hook that leaves the session map as it is
oncloseKeeps(t) == transports

\* transport.onclose: the session map afterwards
onclose(t) ==
    IF tr[t].sessionId # Undefined THEN Delete(transports, tr[t].sessionId)
    ELSE transports

\* the transport's check of the session header: the status it answers
validateSession(t, req) ==
    IF ~tr[t].initialized THEN 400
    ELSE IF req.sessionId = Undefined THEN 400
    ELSE IF req.sessionId # tr[t].sessionId THEN 404
    ELSE 200

\* a factory that hands out one server for all transports
createMcpServerShared(made) == 1

\* createMcpServer(): the instance it returns, given the instances made so far
createMcpServer(made) == Len(made) + 1

\* server.connect(transport): the instances afterwards
connect(s, t) ==
    IF s > Len(servers) THEN Append(servers, t) ELSE [servers EXCEPT ![s] = t]

\* the transport closed: its server is connected to nothing
disconnect(t) ==
    [s \in 1..Len(servers) |-> IF servers[s] = t THEN 0 ELSE servers[s]]

\* a business rule that refuses the cap itself
tooLongFromCap(seconds) == seconds >= maxSeconds

\* if (seconds > 15) throw
tooLong(seconds) == seconds > maxSeconds

\* inputSchema: seconds: z.number().int().positive()
inputSchema(arguments) == Has(arguments, "seconds") /\ arguments.seconds > 0

\* a loop that counts down in twos
decrementTwice(i) == i - 2

\* i-- of the countdown loop
decrement(i) == i - 1

\* a tools/call message for countdown reaches the server of transport t
NewCall(t, req) ==
    [transport |-> t, server |-> tr[t].onmessage, sessionId |-> req.sessionId,
     arguments |-> req.body.params.arguments, pc |-> "start", i |-> 0,
     notes |-> <<>>, result |-> Undefined]

isToolCall(req) ==
    /\ req.method = "POST" /\ req.body.method = "tools/call"
    /\ Has(req.body, "params") /\ req.body.params.name = "countdown"

\* the handler throws: the call ends with an error
thrown(call) == [call EXCEPT !.pc = "done", !.result = "error"]

\* one turn of for (let i = seconds; i > 0; i--) from i on, up to the wait:
\* the logging notification goes out over the transport the call's server is
\* connected to; past the loop the result is returned
iterate(call, i) ==
    IF i > 0
    THEN IF servers[call.server] = 0
         THEN thrown(call)
         ELSE [call EXCEPT !.pc = "wait", !.i = i,
                           !.notes = Append(@, [level |-> "info", remaining |-> i,
                                                over |-> servers[call.server]])]
    ELSE [call EXCEPT !.pc = "done", !.i = i, !.result = "Blastoff"]

\* the calls in progress on transport t
callsOn(t) == [c \in { d \in BagToSet(calls) : d.transport = t } |-> calls[c]]

\* a step of the handler of call c: it goes on as call, or has ended as call
toolStep(c, call) ==
    /\ calls' = IF call.pc = "done" THEN calls (-) SetToBag({c})
                ELSE (calls (-) SetToBag({c})) (+) SetToBag({call})
    /\ last' = [op |-> "tool", call |-> call]
    /\ UNCHANGED <<oauthVars, transports, tr, mcp, servers>>

\* the countdown handler is entered: validation, then the first turn
countdownStart(c) ==
    /\ BagIn(c, calls) /\ c.pc = "start"
    /\ toolStep(c, IF ~inputSchema(c.arguments) THEN thrown(c)
                   ELSE IF tooLong(c.arguments.seconds) THEN thrown(c)
                   ELSE iterate(c, c.arguments.seconds))

\* the one-second wait of call c is over: the next turn
countdownNext(c) ==
    /\ BagIn(c, calls) /\ c.pc = "wait"
    /\ toolStep(c, iterate(c, decrement(c.i)))

mcpDone(x, step, t, status) ==
    /\ mcp' = mcp (-) One(x)
    /\ last' = [op |-> "mcp", step |-> step, req |-> x.req, transport |-> t,
                status |-> status]

\* a transport that shuts down whenever it rejects a request
handleRequestClosing(t, x, step) ==
    LET req == x.req
    IN IF req.method = "POST" /\ req.body.method = "initialize" /\ ~tr[t].initialized
       THEN \E sid \in sessionIdGenerator :
               /\ tr' = [tr EXCEPT ![t].sessionId = sid, ![t].initialized = TRUE]
               /\ transports' = Put(transports, sid, t)
               /\ mcp' = mcp (-) One(x)
               /\ last' = [op |-> "mcp", step |-> step, req |-> req,
                           transport |-> t, status |-> 200, sessionId |-> sid]
               /\ UNCHANGED <<servers, calls>>
       ELSE IF req.body.method # "initialize" /\ req.method # "DELETE"
               /\ validateSession(t, req) = 200
       THEN mcpDone(x, step, t, 200) /\ UNCHANGED <<tr, transports, servers, calls>>
       ELSE /\ tr' = [tr EXCEPT ![t].closed = TRUE]
            /\ transports' = onclose(t)
            /\ servers' = disconnect(t)
            /\ calls' = calls
            /\ mcpDone(x, step, t,
                       IF req.body.method = "initialize" THEN 400
                       ELSE validateSession(t, req))

\* await transport.handleRequest(req, res, req.body)
handleRequest(t, x, step) ==
    LET req == x.req
    IN IF req.method = "POST" /\ req.body.method = "initialize"
       THEN IF tr[t].initialized
            THEN mcpDone(x, step, t, 400)
                 /\ UNCHANGED <<tr, transports, servers, calls>>
            ELSE \E sid \in sessionIdGenerator :
                    /\ tr' = [tr EXCEPT ![t].sessionId = sid, ![t].initialized = TRUE]
                    /\ transports' = Put(transports, sid, t)
                    /\ mcp' = mcp (-) One(x)
                    /\ last' = [op |-> "mcp", step |-> step, req |-> req,
                                transport |-> t, status |-> 200, sessionId |-> sid]
                    /\ UNCHANGED <<servers, calls>>
       ELSE IF req.method = "DELETE" /\ validateSession(t, req) = 200
       THEN /\ tr' = [tr EXCEPT ![t].closed = TRUE]
            /\ transports' = onclose(t)
            /\ servers' = disconnect(t)
            /\ calls' = calls
            /\ mcpDone(x, step, t, 200)
       ELSE IF isToolCall(req) /\ validateSession(t, req) = 200
       THEN /\ BagCardinality(callsOn(t)) < MaxCalls
            /\ calls' = calls (+) SetToBag({NewCall(t, req)})
            /\ mcpDone(x, step, t, 200)
            /\ UNCHANGED <<tr, transports, servers>>
       ELSE mcpDone(x, step, t, validateSession(t, req))
            /\ UNCHANGED <<tr, transports, servers, calls>>

\* a lookup that knows a session only for the bearer of the first token
knownSessionOfFirstToken(x) ==
    /\ x.req.sessionId # Undefined /\ x.req.sessionId \in DOMAIN transports
    /\ x.req.authorization = Bearer(1)

\* sessionId && transports[sessionId]
knownSession(x) ==
    x.req.sessionId # Undefined /\ x.req.sessionId \in DOMAIN transports

\* the route handlers up to their first await: app.post('/mcp') and
\* handleExistingSession (GET, DELETE)
mcpRoute(x) ==
    /\ BagIn(x, mcp) /\ x.pc = "next"
    /\ LET sessionId == x.req.sessionId
           known == knownSession(x)
       IN IF known
          THEN handleRequest(transports[sessionId], x, "route")
          ELSE IF x.req.method = "POST"
          THEN LET t == Len(tr) + 1
                   mcpServer == createMcpServer(servers)
                   rivals == IF x.req.body.method = "initialize"
                             THEN { y.transport : y \in
                                    { z \in BagToSet(mcp) : z.pc = "handle"
                                        /\ z.req.body.method = "initialize" } }
                             ELSE {}
               IN /\ Len(tr) < MaxTransports
                  /\ tr' = Append(tr, NewTransport(rivals) @@ [onmessage |-> mcpServer])
                  /\ servers' = connect(mcpServer, t)
                  /\ mcp' = (mcp (-) One(x))
                            (+) One([pc |-> "handle", req |-> x.req, auth |-> x.auth,
                                     transport |-> t])
                  /\ last' = [op |-> "mcp", step |-> "route", req |-> x.req,
                              transport |-> t, status |-> 0]
                  /\ UNCHANGED <<transports, calls>>
          ELSE /\ mcpDone(x, "route", 0, 400)
               /\ UNCHANGED <<tr, transports, servers, calls>>
    /\ UNCHANGED oauthVars

\* after await mcpServer.connect(transport): the new transport handles the request
mcpHandle(x) ==
    /\ BagIn(x, mcp) /\ x.pc = "handle"
    /\ handleRequest(x.transport, x, "handle")
    /\ UNCHANGED oauthVars

\* a live session's transport closes (transport.close())
transportClose(t) ==
    /\ Live(t) /\ tr[t].initialized
    /\ tr' = [tr EXCEPT ![t].closed = TRUE]
    /\ transports' = onclose(t)
    /\ servers' = disconnect(t)
    /\ last' = [op |-> "close", transport |-> t]
    /\ UNCHANGED <<oauthVars, mcp, calls>>

----------------------------------------------------------------------------
(* Requests for /mcp *)

Body(method) == [method |-> method, id |-> "1", clientName |-> Undefined]
NoBody == [method |-> Undefined, id |-> Undefined, clientName |-> Undefined]

McpRequest(method, authorization, sessionId, body) ==
    [method |-> method, authorization |-> authorization, sessionId |-> sessionId,
     userAgent |-> "curl", body |-> body]

McpRequests ==
    { McpRequest("POST", h, sid, Body(m)) :
        h \in {Bearer(1)}, sid \in SessionIds \cup {Undefined},
        m \in {"initialize", "tools/call"} }
    \cup
    { McpRequest(m, h, sid, NoBody) :
        m \in {"GET", "DELETE"}, h \in {Bearer(1)},
        sid \in SessionIds \cup {Undefined} }
    \cup
    { McpRequest("POST", NoHeader, Undefined, Body("initialize")) }

----------------------------------------------------------------------------

\* the steps of the authorization server on the given requests
OAuthSteps(Registers, Queries, Decisions, Tokens) ==
    \/ Tick
    \/ \E body \in Registers : register(body)
    \/ \E query \in Queries : authorizeGet(query)
    \/ \E body \in Decisions : authorizeDecision(body)
    \/ \E body \in Tokens : tokenGet(body)
    \/ \E x \in BagToSet(exch) : tokenRevoke(x)
    \/ \E x \in BagToSet(exch) : tokenSave(x)

\* the gate and the session lookup on the given requests
GateSteps(Requests) ==
    \/ \E req \in Requests : mcpArrive(req)
    \/ \E x \in BagToSet(mcp) : mcpRoute(x)

SessionSteps ==
    \/ \E x \in BagToSet(mcp) : mcpHandle(x)
    \/ \E t \in 1..Len(tr) : transportClose(t)

\* The authorization flow of one client: the base request, approved or
\* denied, and exchanges that present the right or a wrong redirect_uri.
FlowDecisions == { b \in DecisionBodies : \A f \in DOMAIN BaseQuery : b[f] = BaseQuery[f] }
FlowTokens == { b \in TokenBodies : b.code_verifier = "v1" /\ b.client_id = "mcp_1" }

Next ==
    OAuthSteps({[client_name |-> "vscode"]}, {BaseQuery}, FlowDecisions, FlowTokens)

Spec == Init /\ [][Next]_vars

\* The session endpoint behind the gate, with one client's approved flow.
NextMcp ==
    \/ \E body \in { b \in FlowDecisions : approved(b) } : authorizeDecision(body)
    \/ tokenGet(BaseToken(1))
    \/ \E x \in BagToSet(exch) : tokenRevoke(x)
    \/ \E x \in BagToSet(exch) : tokenSave(x)
    \/ GateSteps(McpRequests)
    \/ SessionSteps

SpecMcp == Init /\ [][NextMcp]_vars

\* The exchange under the PKCE variants of the authorization request and of
\* the verifier presented.
PkceDecisions ==
    { b \in DecisionBodies : /\ approved(b)
                             /\ b.client_id = BaseQuery.client_id
                             /\ b.redirect_uri = BaseQuery.redirect_uri
                             /\ b.state = BaseQuery.state }
PkceTokens ==
    { b \in TokenBodies : /\ b.client_id = "mcp_1"
                          /\ b.redirect_uri = "http://cb1" }

NextPkce ==
    OAuthSteps({[client_name |-> "vscode"]}, {BaseQuery}, PkceDecisions, PkceTokens)

SpecPkce == Init /\ [][NextPkce]_vars

\* The gate in front of the session endpoint while the clock advances.
GateRequests ==
    { McpRequest(m, NoHeader, "s1", NoBody) : m \in {"GET", "DELETE"} }
    \cup
    { McpRequest("POST", h, Undefined, Body("initialize")) :
        h \in {NoHeader, Bearer(0), Bearer(1)} }
    \cup
    { McpRequest("DELETE", Bearer(1), "s1", NoBody) }

NextGate ==
    \/ Tick
    \/ \E body \in { b \in FlowDecisions : approved(b) } : authorizeDecision(body)
    \/ tokenGet(BaseToken(1))
    \/ \E x \in BagToSet(exch) : tokenRevoke(x)
    \/ \E x \in BagToSet(exch) : tokenSave(x)
    \/ GateSteps(GateRequests)
    \/ SessionSteps

SpecGate == Init /\ [][NextGate]_vars

----------------------------------------------------------------------------
(* Properties *)

isTokenGet(l) == l.op = "token" /\ l.step = "get"
refused(l) == l.status = 400 /\ l.error = "invalid_grant"
mintedFor(c) == { t \in DOMAIN minted : minted[t].code = c }

\* C1: once an exchange for a code has succeeded, an exchange attempt that
\* arrives afterwards with the same code is answered 400 invalid_grant, mints
\* no token and starts no exchange, whatever happened in between.
C1_SingleUse ==
    [][ (isTokenGet(last') /\ mintedFor(last'.body.code) # {})
        => (refused(last') /\ minted' = minted /\ accessTokens' = accessTokens
            /\ exch' = exch) ]_vars

\* a code has been exchanged and a later attempt with it has been refused
C1_Witness ==
    /\ isTokenGet(last) /\ refused(last)
    /\ mintedFor(last.body.code) # {}
    /\ last.body = BaseToken(last.body.code)

\* C2: of the exchanges handled for one authorization code, however their
\* lookup, revoke and save steps interleave, at most one obtains a token.
C2_AtMostOneToken ==
    \A c \in CodeIds : Cardinality(mintedFor(c)) <= 1

\* C3: a request presenting a token minted by exchange passes the gate
\* before the token's expiry time, and at or after it is answered 401 and
\* the token is no longer in the store.
C3_ExpiryEnforced ==
    (/\ last.op = "mcp" /\ last.step = "gate"
     /\ startsWithBearer(last.req.authorization)
     /\ substring7(last.req.authorization) \in DOMAIN minted)
    => LET t == substring7(last.req.authorization)
       IN IF now < minted[t].expiresAt
          THEN last.status # 401 /\ t \in DOMAIN accessTokens
          ELSE last.status = 401 /\ t \notin DOMAIN accessTokens

\* C4: every token minted came from an exchange whose code carried the
\* S256 method and whose verifier hashes to the stored challenge.
C4_PkceS256 ==
    \A t \in DOMAIN minted :
        /\ minted[t].codeChallengeMethod = "S256"
        /\ minted[t].code_verifier # Undefined
        /\ S256(minted[t].code_verifier) = minted[t].codeChallenge

\* C5: an exchange attempt that presents a stored code after the code's
\* expiry time (its issue time plus the code lifetime) is answered 400
\* invalid_grant and mints no token, used before or not.
C5_ExpiredCode ==
    [][ (/\ isTokenGet(last')
         /\ last'.body.code \in DOMAIN issued
         /\ now > issued[last'.body.code] + authorizationCodeLifetime)
        => (refused(last') /\ minted' = minted /\ accessTokens' = accessTokens
            /\ exch' = exch) ]_vars

\* a never used code, otherwise rightly presented, has been refused after
\* its expiry
C5_Witness ==
    /\ isTokenGet(last) /\ refused(last)
    /\ last.body = BaseToken(last.body.code)
    /\ last.body.code \in DOMAIN authorizationCodes
    /\ minted = Empty /\ exch = EmptyBag
    /\ now > issued[last.body.code] + authorizationCodeLifetime

\* does the request carry a token of the store that has not expired
validBearer(req) ==
    /\ startsWithBearer(req.authorization)
    /\ substring7(req.authorization) \in DOMAIN accessTokens
    /\ now < accessTokens[substring7(req.authorization)].accessTokenExpiresAt

\* C6: a request for the session endpoint that carries no valid bearer
\* token is answered by the gate: it creates no transport, reaches no
\* transport and leaves the session map as it was.
C6_GateFirst ==
    [][ (last'.op = "mcp" /\ last'.step = "gate" /\ ~validBearer(last'.req))
        => (last'.status = 401 /\ sessVars' = sessVars) ]_vars

isDecision(l) == l.op = "authorize" /\ l.method = "POST"

\* C7: a decision whose authorize flag is not 'true' leaves the code store
\* unchanged and is answered by a redirect to the request's redirect_uri
\* with error=access_denied.
C7_Denial ==
    [][ (isDecision(last') /\ last'.body.authorize # "true")
        => (/\ authorizationCodes' = authorizationCodes
            /\ last'.status = 302
            /\ last'.location = last'.body.redirect_uri
            /\ last'.error = "access_denied") ]_vars

\* a denial has been answered while the store held a code
C7_Witness ==
    /\ isDecision(last) /\ last.body.authorize = "false"
    /\ last.status = 302 /\ last.error = "access_denied"
    /\ authorizationCodes # Empty

C9_ConcurrentInit ==
    \A t2 \in 1..Len(tr) : \A t1 \in tr[t2].rivals :
        (tr[t1].initialized /\ tr[t2].initialized)
        => /\ t1 # t2
           /\ tr[t1].sessionId # tr[t2].sessionId
           /\ (Live(t1) /\ Live(t2))
              => /\ tr[t1].sessionId \in DOMAIN transports
                 /\ tr[t2].sessionId \in DOMAIN transports
                 /\ transports[tr[t1].sessionId] = t1
                 /\ transports[tr[t2].sessionId] = t2

\* C10: no two live transports carry the same session id.
C10_OneLivePerSession ==
    \A t1, t2 \in 1..Len(tr) :
        (t1 # t2 /\ Live(t1) /\ Live(t2)
         /\ tr[t1].initialized /\ tr[t2].initialized)
        => tr[t1].sessionId # tr[t2].sessionId

\* the transports created for a session id that have not closed
liveFor(sid) == { t \in 1..Len(tr) : Live(t) /\ tr[t].sessionId = sid }

\* a request is looked up in the session map and handed to a transport
isHandedByLookup(l) ==
    /\ l.op = "mcp" /\ l.step = "route"
    /\ l.req.sessionId # Undefined
    /\ l.transport # 0

\* C11: a request whose session id is in the session map is handed to the
\* transport created for that id: while that transport has not closed, no
\* other transport receives the id's requests.
C11_SameTransport ==
    [][ (isHandedByLookup(last') /\ last'.req.sessionId \in DOMAIN transports)
        => liveFor(last'.req.sessionId) = {last'.transport} ]_vars

\* the request names a session the map does not hold, or names none and is
\* not an initialization message
unknownOrMissing(req) ==
    \/ req.sessionId # Undefined /\ req.sessionId \notin DOMAIN transports
    \/ req.sessionId = Undefined /\ req.body.method # "initialize"

\* C12: a request past the gate with an unknown session id, or with none
\* and no initialization message, is answered 400 by the route, and no
\* transport is created for it or receives it.
C12_UnknownSessionRejected ==
    [][ (last'.op = "mcp" /\ last'.step = "route" /\ unknownOrMissing(last'.req))
        => (last'.status = 400 /\ last'.transport = 0 /\ tr' = tr) ]_vars

\* the session ids whose transport has closed: onclose removed them from
\* the session map
retired == { tr[t].sessionId : t \in { u \in 1..Len(tr) : tr[u].closed } }

\* C13: a session id removed from the session map by the closing of its
\* transport is never bound to a transport again.
C13_NoReuse ==
    [][ \A sid \in retired :
            sid \in DOMAIN transports'
            => (sid \in DOMAIN transports /\ transports'[sid] = transports[sid])
      ]_vars

\* Sessions that are opened and terminated.
SessRequests ==
    { McpRequest("POST", Bearer(1), Undefined, Body("initialize")) }
    \cup
    { McpRequest("DELETE", Bearer(1), "s1", NoBody) }

NextSess ==
    \/ \E body \in { b \in FlowDecisions : approved(b) } : authorizeDecision(body)
    \/ tokenGet(BaseToken(1))
    \/ \E x \in BagToSet(exch) : tokenRevoke(x)
    \/ \E x \in BagToSet(exch) : tokenSave(x)
    \/ GateSteps(SessRequests)
    \/ SessionSteps

SpecSess == Init /\ [][NextSess]_vars

\* C14: a DELETE past the gate for a session id in the session map shuts
\* the mapped transport down and the id is gone from the map when it is
\* answered; and whenever a transport closes, by DELETE or otherwise, its
\* session id is gone from the map.
C14_TerminateCleansUp ==
    [][ /\ (/\ last'.op = "mcp" /\ last'.step = "route"
            /\ last'.req.method = "DELETE"
            /\ last'.req.sessionId \in DOMAIN transports)
           => (/\ last'.status = 200
               /\ last'.transport = transports[last'.req.sessionId]
               /\ tr'[last'.transport].closed
               /\ last'.req.sessionId \notin DOMAIN transports')
        /\ \A t \in 1..Len(tr) :
              (~tr[t].closed /\ tr'[t].closed)
              => tr[t].sessionId \notin DOMAIN transports' ]_vars

\* a session was terminated by DELETE while another transport was open
C14_Witness ==
    /\ last.op = "mcp" /\ last.step = "route" /\ last.req.method = "DELETE"
    /\ last.status = 200
    /\ tr[last.transport].closed
    /\ last.req.sessionId \notin DOMAIN transports
    /\ Len(tr) > 1

\* Requests the gate rejects, over the User-Agent values and the bodies
\* that decide the challenge. A body id is the JSON text of the id.
ChallengeRequests ==
    { [McpRequest("POST", h, Undefined,
                  [method |-> m, id |-> i, clientName |-> n])
         EXCEPT !.userAgent = ua] :
        h \in {NoHeader, Basic, Bearer(0)},
        m \in {"initialize", "tools/call"},
        i \in {Undefined, "0", "1"},
        n \in {Undefined, "Visual Studio Code", "Cursor"},
        ua \in {"node", "curl"} }

NextChallenge == \E req \in ChallengeRequests : mcpArrive(req)

SpecChallenge == Init /\ [][NextChallenge]_vars

isChallenge(l) == l.op = "mcp" /\ l.step = "gate" /\ l.status = 401

metadataParams(header) ==
    { i \in DOMAIN header :
        header[i][1] \in {"resource_metadata", "resource_metadata_url"} }

\* C15: the WWW-Authenticate header of every 401 of the gate carries
\* exactly one of resource_metadata and resource_metadata_url.
C15_OneMetadataParam ==
    isChallenge(last) => Cardinality(metadataParams(last.wwwAuthenticate)) = 1

\* a challenge to a client recognised by its initialize body alone
C15_Witness ==
    /\ isChallenge(last)
    /\ last.req.userAgent = "curl"
    /\ last.req.body.clientName = "Visual Studio Code"
    /\ last.req.body.method = "initialize"
    /\ \E i \in DOMAIN last.wwwAuthenticate :
          last.wwwAuthenticate[i][1] = "resource_metadata_url"

\* C16: every rejection of the gate is a 401 whose envelope has error code
\* -32001 and the id of the request body, or null when the body has none.
C16_EnvelopeId ==
    (last.op = "mcp" /\ last.step = "gate" /\ last.status # 0)
    => /\ last.status = 401
       /\ last.jsonrpc = "2.0"
       /\ last.error.code = -32001
       /\ last.id = IF last.req.body.id = Undefined THEN "null"
                    ELSE last.req.body.id

\* The flow of one client whose requests carry a state or none.
StateQueries == { BaseQuery, [BaseQuery EXCEPT !.state = Undefined] }
StateDecisions ==
    { b \in DecisionBodies :
        \A f \in DOMAIN BaseQuery \ {"state"} : b[f] = BaseQuery[f] }

NextState ==
    OAuthSteps({[client_name |-> "vscode"]}, StateQueries, StateDecisions,
               {BaseToken(1)})

SpecState == Init /\ [][NextState]_vars

\* C17: the redirect that answers a decision, approval or denial, carries
\* the state of the request, or 'default' when the request had none.
C17_StateEchoed ==
    (isDecision(last) /\ last.status = 302)
    => last.state = IF last.body.state = Undefined THEN "default"
                    ELSE last.body.state

isTokenRevoke(l) == l.op = "token" /\ l.step = "revoke"

\* C18: an exchange that presents a redirect_uri other than the one stored
\* on its authorization code is answered 400 invalid_grant once the code is
\* consumed, mints no token, and never reaches the saving of a token.
C18_RedirectMismatch ==
    [][ /\ (/\ isTokenRevoke(last')
            /\ last'.body.code \in DOMAIN authorizationCodes
            /\ last'.body.redirect_uri
                 # authorizationCodes[last'.body.code].redirectUri)
           => (refused(last') /\ minted' = minted /\ accessTokens' = accessTokens)
        /\ \A x \in BagToSet(exch') :
              x.pc = "save" => x.body.redirect_uri = x.code.redirectUri ]_vars

\* an exchange with the wrong redirect_uri has been refused
C18_Witness ==
    /\ isTokenRevoke(last) /\ refused(last)
    /\ last.body.redirect_uri = "http://cb2"
    /\ last.body.code \notin DOMAIN authorizationCodes
    /\ minted = Empty

\* C19: every token of the store was minted by an exchange and carries the
\* client, the user and the scope of the code exchanged, and an expiry
\* accessTokenLifetime after the time it was created.
C19_TokenBinding ==
    \A t \in DOMAIN accessTokens :
        /\ t \in DOMAIN minted
        /\ accessTokens[t].accessToken = t
        /\ accessTokens[t].client = minted[t].client
        /\ accessTokens[t].user = minted[t].user
        /\ accessTokens[t].scope = minted[t].scope
        /\ accessTokens[t].accessTokenExpiresAt = minted[t].at + accessTokenLifetime

\* a token minted some time after the server started, for the demo user
C19_Witness ==
    \E t \in DOMAIN accessTokens :
        /\ minted[t].at > 0
        /\ accessTokens[t].user = [id |-> "demo-user"]
        /\ accessTokens[t].client.id = "mcp_1"

\* Requests that go no further than the gate or the session lookup, with
\* no token, an unknown token and the tokens an exchange may mint.
ProbeRequests ==
    { McpRequest("GET", h, Undefined, NoBody) :
        h \in {NoHeader, Bearer(0)} \cup { Bearer(t) : t \in TokenIds } }

NextProbe ==
    \/ Tick
    \/ \E body \in { b \in FlowDecisions : approved(b) } : authorizeDecision(body)
    \/ tokenGet(BaseToken(1))
    \/ \E x \in BagToSet(exch) : tokenRevoke(x)
    \/ \E x \in BagToSet(exch) : tokenSave(x)
    \/ GateSteps(ProbeRequests)

SpecProbe == Init /\ [][NextProbe]_vars

isGate(l) == l.op = "mcp" /\ l.step = "gate"

\* C20: two validations of the same token with nothing in between give the
\* same result, and a validation leaves the token store as it was or
\* deletes from it the presented token, whose expiry time has come.
C20_ValidationIdempotent ==
    [][ /\ isGate(last')
           => \/ accessTokens' = accessTokens
              \/ /\ startsWithBearer(last'.req.authorization)
                 /\ substring7(last'.req.authorization) \in DOMAIN accessTokens
                 /\ now >= accessTokens[substring7(last'.req.authorization)]
                              .accessTokenExpiresAt
                 /\ accessTokens'
                      = Delete(accessTokens, substring7(last'.req.authorization))
        /\ (/\ isGate(last) /\ isGate(last')
            /\ last'.req.authorization = last.req.authorization)
           => ((last'.status = 401) <=> (last.status = 401)) ]_vars

\* the same stored token has been validated twice and accepted both times
C20_Witness ==
    /\ isGate(last) /\ last.status = 0
    /\ substring7(last.req.authorization) \in DOMAIN accessTokens
    /\ \E x \in BagToSet(mcp) : x.req = last.req /\ CopiesIn(x, mcp) = 2

\* C21: no step changes or removes a client record that is stored: its
\* grants and redirect URIs stay what they were when it was created.
C21_ClientsImmutable ==
    [][ \A c \in DOMAIN clients :
            c \in DOMAIN clients' /\ clients'[c] = clients[c] ]_vars

\* Sessions that are opened while requests naming no session, or one that
\* may not exist, arrive.
RejectRequests ==
    { McpRequest("POST", Bearer(1), Undefined, Body(m)) :
        m \in {"initialize", "tools/call"} }
    \cup
    { McpRequest("GET", Bearer(1), "s1", NoBody) }

NextReject ==
    \/ \E body \in { b \in FlowDecisions : approved(b) } : authorizeDecision(body)
    \/ tokenGet(BaseToken(1))
    \/ \E x \in BagToSet(exch) : tokenRevoke(x)
    \/ \E x \in BagToSet(exch) : tokenSave(x)
    \/ GateSteps(RejectRequests)
    \/ \E x \in BagToSet(mcp) : mcpHandle(x)

SpecReject == Init /\ [][NextReject]_vars

\* the step belongs to a request that is rejected for its session id: it
\* answers 400, or creates the transport of a request that is no
\* initialization message
isRejection(l) ==
    /\ l.op = "mcp" /\ l.step \in {"route", "handle"}
    /\ \/ l.status = 400
       \/ l.status = 0 /\ l.req.body.method # "initialize"

\* C22: a request rejected for an unknown or missing session id leaves the
\* session map as it was and every transport that existed as it was.
C22_RejectionFrame ==
    [][ isRejection(last')
        => (/\ transports' = transports
            /\ Len(tr') >= Len(tr)
            /\ \A t \in 1..Len(tr) : tr'[t] = tr[t]) ]_vars

\* a request naming no known session was rejected while a session was bound
C22_Witness ==
    /\ isRejection(last) /\ last.status = 400
    /\ unknownOrMissing(last.req)
    /\ transports # Empty
    /\ \E t \in 1..Len(tr) : Live(t) /\ tr[t].initialized

----------------------------------------------------------------------------
(* Unexpected internal errors: an awaited call throws, the handler's catch *)
(* answers.                                                                *)

\* oauth.authorize throws: catch (error) of authorize
authorizeFault(body) ==
    /\ approved(body)
    /\ last' = [op |-> "authorize", method |-> "POST", body |-> body,
                fault |-> TRUE, status |-> 500, error |-> "Authorization failed"]
    /\ UNCHANGED <<oauthVars, sessVars>>

\* a model call of an exchange in flight throws: catch (error) of token
tokenFault(x) ==
    /\ BagIn(x, exch)
    /\ exch' = exch (-) One(x)
    /\ last' = tokenError(x.body, x.pc) @@ [fault |-> TRUE]
    /\ UNCHANGED <<clients, authorizationCodes, accessTokens, now, nextCode,
                   nextToken, nextClient, issued, minted>>
    /\ UNCHANGED sessVars

\* model.getAccessToken throws: catch (error) of authenticateRequest
gateFault(req) ==
    /\ startsWithBearer(req.authorization)
    /\ last' = [op |-> "mcp", step |-> "gate", req |-> req, fault |-> TRUE]
               @@ send401(req, "Token validation failed")
    /\ UNCHANGED <<oauthVars, sessVars>>

\* connect or handleRequest throws: catch (error) of the /mcp routes
mcpFault(x) ==
    /\ BagIn(x, mcp)
    /\ mcp' = mcp (-) One(x)
    /\ last' = [op |-> "mcp", step |-> x.pc, req |-> x.req, fault |-> TRUE,
                status |-> 500, error |-> "Internal Server Error"]
    /\ UNCHANGED <<oauthVars, transports, tr, servers, calls>>

FaultRequests == { McpRequest("POST", Bearer(1), Undefined, Body("initialize")) }

NextFault ==
    \/ \E body \in { b \in FlowDecisions : approved(b) } : authorizeDecision(body)
    \/ \E body \in { b \in FlowDecisions : approved(b) } : authorizeFault(body)
    \/ tokenGet(BaseToken(1))
    \/ \E x \in BagToSet(exch) : tokenRevoke(x)
    \/ \E x \in BagToSet(exch) : tokenSave(x)
    \/ \E x \in BagToSet(exch) : tokenFault(x)
    \/ \E req \in FaultRequests : gateFault(req)
    \/ GateSteps(FaultRequests)
    \/ \E x \in BagToSet(mcp) : mcpHandle(x)
    \/ \E x \in BagToSet(mcp) : mcpFault(x)

SpecFault == Init /\ [][NextFault]_vars

\* C23: the answer to a request whose handling raised an unexpected
\* internal error has status 500.
C23_Generic500 ==
    Has(last, "fault") => last.status = 500

\* Registration requests: no parsed body, redirect URIs that are no URIs,
\* and a grant type the server does not have.
MalformedBodies ==
    { Null, [redirect_uris |-> {"not a uri"}], [grant_types |-> {"bogus"}] }

NextRegister ==
    OAuthSteps(RegisterBodies \cup MalformedBodies, {BaseQuery}, FlowDecisions,
               {BaseToken(1)})

SpecRegister == Init /\ [][NextRegister]_vars

isUri(u) == u \in {"http://cb1", "http://cb2", DefaultCallback}

wellFormed(body) ==
    /\ body # Null
    /\ Has(body, "redirect_uris") => \A u \in body.redirect_uris : isUri(u)
    /\ Has(body, "grant_types") => body.grant_types \subseteq {"authorization_code"}

\* C24: a registration with malformed metadata is answered 400
\* invalid_client_metadata and stores no client; a well-formed one is
\* answered 201 with a client id under which exactly that client is stored.
C24_Registration ==
    [][ last'.op = "register"
        => IF wellFormed(last'.body)
           THEN /\ last'.status = 201
                /\ last'.client_id \notin DOMAIN clients
                /\ DOMAIN clients' = DOMAIN clients \cup {last'.client_id}
                /\ clients'[last'.client_id].id = last'.client_id
           ELSE /\ last'.status = 400
                /\ last'.error = "invalid_client_metadata"
                /\ clients' = clients ]_vars

----------------------------------------------------------------------------
(* Tool calls *)

\* tools/call of countdown with the given seconds
ToolBody(seconds) ==
    Body("tools/call")
    @@ [params |-> [name |-> "countdown", arguments |-> [seconds |-> seconds]]]

ToolRequest(sid, seconds) == McpRequest("POST", Bearer(1), sid, ToolBody(seconds))

InitializeRequest == McpRequest("POST", Bearer(1), Undefined, Body("initialize"))

\* the steps of the countdown calls in progress
ToolSteps ==
    \/ \E c \in BagToSet(calls) : countdownStart(c)
    \/ \E c \in BagToSet(calls) : countdownNext(c)

\* One client counts down from 0, 1, 15 or 16 seconds.
CountdownRequests ==
    {InitializeRequest} \cup { ToolRequest("s1", n) : n \in {0, 1, 15, 16} }

NextCountdown ==
    \/ \E body \in { b \in FlowDecisions : approved(b) } : authorizeDecision(body)
    \/ tokenGet(BaseToken(1))
    \/ \E x \in BagToSet(exch) : tokenRevoke(x)
    \/ \E x \in BagToSet(exch) : tokenSave(x)
    \/ GateSteps(CountdownRequests)
    \/ \E x \in BagToSet(mcp) : mcpHandle(x)
    \/ ToolSteps

SpecCountdown == Init /\ [][NextCountdown]_vars

\* Two sessions count down from 2 seconds, and the first may be terminated.
ToolsRequests ==
    {InitializeRequest} \cup { ToolRequest(sid, 2) : sid \in SessionIds }
    \cup { McpRequest("DELETE", Bearer(1), "s1", NoBody) }

NextTools ==
    \/ \E body \in { b \in FlowDecisions : approved(b) } : authorizeDecision(body)
    \/ tokenGet(BaseToken(1))
    \/ \E x \in BagToSet(exch) : tokenRevoke(x)
    \/ \E x \in BagToSet(exch) : tokenSave(x)
    \/ GateSteps(ToolsRequests)
    \/ \E x \in BagToSet(mcp) : mcpHandle(x)
    \/ ToolSteps

SpecTools == Init /\ [][NextTools]_vars

\* the calls in progress and the call that has just ended
callsSeen ==
    BagToSet(calls) \cup (IF last.op = "tool" THEN {last.call} ELSE {})

\* C25: every transport has a server instance of its own, connected to no
\* other transport, and every notification of a call was delivered over the
\* transport that received the call, the transport of the call's session.
C25_SessionIsolation ==
    /\ \A t1, t2 \in 1..Len(tr) :
          t1 # t2 => tr[t1].onmessage # tr[t2].onmessage
    /\ \A t \in 1..Len(tr) : servers[tr[t].onmessage] \in {t, 0}
    /\ \A c \in callsSeen :
          /\ tr[c.transport].sessionId = c.sessionId
          /\ tr[c.transport].onmessage = c.server
          /\ \A k \in 1..Len(c.notes) : c.notes[k].over = c.transport

\* two sessions count down at the same time and both have been notified
C25_Witness ==
    \E c1, c2 \in BagToSet(calls) :
        /\ c1.transport # c2.transport /\ c1.sessionId # c2.sessionId
        /\ Len(c1.notes) >= 1 /\ Len(c2.notes) >= 1

\* C26: a countdown call with more than 15 seconds ends with an error and
\* has sent no notification; a call with exactly 15 seconds is not refused
\* and sends its notifications.
C26_CapAtFifteen ==
    last.op = "tool"
    => LET c == last.call
           seconds == c.arguments.seconds
       IN /\ seconds > 15 => (c.result = "error" /\ c.notes = <<>>)
          /\ seconds = 15 => (c.result # "error" /\ Len(c.notes) >= 1)

C26_Witness ==
    /\ last.op = "tool" /\ last.call.arguments.seconds = 16
    /\ last.call.result = "error"

\* C27: an accepted countdown of n seconds announces n, n-1, ..., 1 seconds
\* remaining, in that order and nothing else; it has a result only when it
\* has ended, and then it has sent exactly n notifications and its result is
\* the final one.
C27_CountdownOrder ==
    \A c \in callsSeen :
        LET n == c.arguments.seconds
        IN n \in 1..15
           => /\ Len(c.notes) <= n
              /\ \A k \in 1..Len(c.notes) :
                    c.notes[k].level = "info" /\ c.notes[k].remaining = n - k + 1
              /\ c.pc # "done" => c.result = Undefined
              /\ c.pc = "done" => (c.result = "Blastoff" /\ Len(c.notes) = n)

C27_Witness ==
    /\ last.op = "tool" /\ last.call.arguments.seconds = 15
    /\ last.call.result = "Blastoff" /\ Len(last.call.notes) = 15

\* the verifier presented does not match the challenge stored on the code
pkceMismatch(code, body) ==
    /\ code.codeChallenge # Undefined /\ body.code_verifier # Undefined
    /\ getHashForCodeChallenge(IF code.codeChallengeMethod = Undefined
                               THEN "plain" ELSE code.codeChallengeMethod,
                               body.code_verifier) # code.codeChallenge

\* C28: an exchange step that refuses a stored, unexpired code of the right
\* client because the redirect_uri or the PKCE verifier presented does not
\* match leaves the store without that code, so that no later attempt can
\* find it.
C28_ConsumedFirst ==
    [][ (/\ last'.op = "token" /\ refused(last')
         /\ last'.body.code \in DOMAIN authorizationCodes
         /\ LET code == authorizationCodes[last'.body.code]
            IN /\ code.client.id = last'.body.client_id
               /\ ~(code.expiresAt < now)
               /\ \/ last'.body.redirect_uri # code.redirectUri
                  \/ pkceMismatch(code, last'.body))
        => last'.body.code \notin DOMAIN authorizationCodes' ]_vars

\* C29: a step that mints a token leaves the store without the code it
\* exchanged, and an exchange attempt that presents a stored code after its
\* expiry leaves the store without that code.
C29_CodeLeavesStore ==
    [][ /\ \A t \in DOMAIN minted' \ DOMAIN minted :
              minted'[t].code \notin DOMAIN authorizationCodes'
        /\ (/\ isTokenGet(last')
            /\ last'.body.code \in DOMAIN authorizationCodes
            /\ authorizationCodes[last'.body.code].expiresAt < now)
           => last'.body.code \notin DOMAIN authorizationCodes' ]_vars

\* Approvals of every variant of the authorization request, and of one that
\* names a challenge without a method.
ApproveDecisions ==
    { b \in DecisionBodies : approved(b) }
    \cup { [BaseQuery EXCEPT !.code_challenge = "v1",
                             !.code_challenge_method = Undefined]
           @@ [authorize |-> "true"] }

NextApprove ==
    OAuthSteps({[client_name |-> "vscode"]}, {BaseQuery}, ApproveDecisions,
               {BaseToken(1)})

SpecApprove == Init /\ [][NextApprove]_vars

\* the step stored exactly one new code, bound to the demo user and to the
\* decision's client and redirect URI, and redirected there with its id
storedAndRedirected(l) ==
    /\ l.status = 302 /\ l.location = l.body.redirect_uri
    /\ Has(l, "code") /\ l.code \notin DOMAIN authorizationCodes
    /\ DOMAIN authorizationCodes' = DOMAIN authorizationCodes \cup {l.code}
    /\ \A c \in DOMAIN authorizationCodes :
          authorizationCodes'[c] = authorizationCodes[c]
    /\ authorizationCodes'[l.code].authorizationCode = l.code
    /\ authorizationCodes'[l.code].user = [id |-> "demo-user"]
    /\ authorizationCodes'[l.code].client.id = l.body.client_id
    /\ authorizationCodes'[l.code].redirectUri = l.body.redirect_uri

hasParam(header, name) == \E i \in DOMAIN header : header[i][1] = name

\* C31: a challenge carries resource_metadata_url exactly when the request's
\* User-Agent is 'node' or its body is an initialize message that declares
\* the client name 'Visual Studio Code'; every other challenge carries
\* resource_metadata.
C31_MetadataChoice ==
    isChallenge(last)
    => LET vscode == \/ last.req.userAgent = "node"
                     \/ /\ last.req.body.method = "initialize"
                        /\ last.req.body.clientName = "Visual Studio Code"
       IN /\ hasParam(last.wwwAuthenticate, "resource_metadata_url") <=> vscode
          /\ hasParam(last.wwwAuthenticate, "resource_metadata") <=> ~vscode

\* a message that is no initialize names Visual Studio Code and is
\* challenged with the standard parameter
C31_Witness ==
    /\ isChallenge(last)
    /\ last.req.userAgent = "curl"
    /\ last.req.body.method = "tools/call"
    /\ last.req.body.clientName = "Visual Studio Code"
    /\ hasParam(last.wwwAuthenticate, "resource_metadata")

\* C32: the gate answers a request in one of two ways.  If its Authorization
\* header starts with 'Bearer ' and the token store returns the rest of the
\* header as a token, the request goes on to the next handler with the
\* token's user and client attached and no answer is sent; otherwise the
\* request goes nowhere and is answered by a 401 challenge.
C32_GateDecision ==
    [][ isGate(last')
        => LET h == last'.req.authorization
               found == IF startsWithBearer(h) THEN getAccessToken(substring7(h))[1]
                        ELSE Null
           IN IF found # Null
              THEN /\ last'.status = 0
                   /\ ~Has(last', "wwwAuthenticate")
                   /\ mcp' = mcp (+) SetToBag({[pc |-> "next", req |-> last'.req,
                                               auth |-> [user |-> found.user,
                                                         client |-> found.client]]})
              ELSE /\ last'.status = 401
                   /\ Has(last', "wwwAuthenticate")
                   /\ mcp' = mcp ]_vars

\* a request with a stored token has passed with the demo user attached while
\* one with an unknown token is challenged
C32_Witness ==
    /\ isGate(last) /\ last.status = 401
    /\ last.req.authorization = Bearer(0)
    /\ \E x \in BagToSet(mcp) :
          x.pc = "next" /\ x.auth.user = [id |-> "demo-user"]
                        /\ x.auth.client.id = "mcp_1"

\* the request that created transport t is still being handled
beingConnected(t) ==
    \E x \in BagToSet(mcp) : x.pc = "handle" /\ x.transport = t

\* C33: every transport whose creating request has been answered is closed
\* or is the transport its session id is bound to in the session map.
C33_BoundOrClosed ==
    \A t \in 1..Len(tr) :
        ~beingConnected(t)
        => \/ tr[t].closed
           \/ /\ tr[t].sessionId # Undefined
              /\ tr[t].sessionId \in DOMAIN transports
              /\ transports[tr[t].sessionId] = t

\* C34: a step that removes a binding from the session map closes the
\* transport the binding pointed to: the binding of a transport that stays
\* open is never removed.
C34_OncloseOwnEntry ==
    [][ \A sid \in DOMAIN transports \ DOMAIN transports' :
            tr'[transports[sid]].closed ]_vars

\* One client opens sessions with its first token; streams are then asked
\* for with either token of the two a code can yield (C2).
OwnerRequests ==
    {InitializeRequest}
    \cup { McpRequest("GET", Bearer(t), "s1", NoBody) : t \in TokenIds }

NextOwner ==
    \/ \E body \in { b \in FlowDecisions : approved(b) } : authorizeDecision(body)
    \/ tokenGet(BaseToken(1))
    \/ \E x \in BagToSet(exch) : tokenRevoke(x)
    \/ \E x \in BagToSet(exch) : tokenSave(x)
    \/ GateSteps(OwnerRequests)
    \/ \E x \in BagToSet(mcp) : mcpHandle(x)

SpecOwner == Init /\ [][NextOwner]_vars

isRoute(l) == l.op = "mcp" /\ l.step = "route"

ClientQuery == [BaseQuery EXCEPT !.client_id = "web"]

ClientDecisions ==
    { b \in DecisionBodies :
        /\ approved(b)
        /\ \E q \in {BaseQuery, ClientQuery} : \A f \in DOMAIN q : b[f] = q[f] }

ClientTokens == { BaseToken(1), [BaseToken(1) EXCEPT !.client_id = "web"] }

NextClient ==
    OAuthSteps({[client_name |-> "vscode"]}, {ClientQuery}, ClientDecisions,
               ClientTokens)

SpecClient == Init /\ [][NextClient]_vars

----------------------------------------------------------------------------
(* mcp-server.ts: createSlug.  A text is the sequence of its characters;    *)
(* characters outside ASCII are written by their code points.               *)

RECURSIVE Flat(_), DropLeading(_, _), DropTrailing(_, _), Collapse(_)

\* the characters of the inputs: letters of both cases, a digit, a space, a
\* hyphen, an underscore, punctuation, E with acute, and double-struck R
Alphabet == {"a", "B", "1", " ", "-", "_", "!", "U+00C9", "U+211D"}

Texts == UNION { [1..n -> Alphabet] : n \in 0..MaxText }

\* String.prototype.toLowerCase on one character; double-struck R has no
\* lowercase form
toLowerCase(c) ==
    IF c = "B" THEN "b" ELSE IF c = "U+00C9" THEN "U+00E9" ELSE c

\* normalize("NFKD") on one character: e with acute becomes e and the
\* combining acute, double-struck R becomes R
normalizeNFKD(c) ==
    IF c = "U+00E9" THEN <<"e", "U+0301">>
    ELSE IF c = "U+00C9" THEN <<"E", "U+0301">>
    ELSE IF c = "U+211D" THEN <<"R">>
    ELSE <<c>>

\* \w
isWord(c) == c \in {"a", "b", "B", "e", "E", "R", "1", "_"}
\* \s
isSpace(c) == c = " "

Flat(ss) == IF Len(ss) = 0 THEN <<>> ELSE Head(ss) \o Flat(Tail(ss))

DropLeading(s, set) ==
    IF Len(s) > 0 /\ Head(s) \in set THEN DropLeading(Tail(s), set) ELSE s

DropTrailing(s, set) ==
    IF Len(s) > 0 /\ s[Len(s)] \in set
    THEN DropTrailing(SubSeq(s, 1, Len(s) - 1), set) ELSE s

\* replace(/[\s_-]+/g, "-")
Collapse(s) ==
    IF Len(s) = 0 THEN <<>>
    ELSE IF Head(s) \in {" ", "_", "-"}
    THEN <<"-">> \o Collapse(DropLeading(s, {" ", "_", "-"}))
    ELSE <<Head(s)>> \o Collapse(Tail(s))

keepsWordSpaceHyphen(c) == isWord(c) \/ isSpace(c) \/ c = "-"

createSlug(text) ==
    LET lower == [i \in 1..Len(text) |-> toLowerCase(text[i])]
        normalized == Flat([i \in 1..Len(lower) |-> normalizeNFKD(lower[i])])
        stripped == SelectSeq(normalized, keepsWordSpaceHyphen)
        trimmed == DropTrailing(DropLeading(stripped, {" "}), {" "})
        hyphenated == Collapse(trimmed)
    IN DropTrailing(DropLeading(hyphenated, {"-"}), {"-"})

\* the slugify tool is called with a text
slugify(text) ==
    /\ last' = [op |-> "slugify", text |-> text, content |-> createSlug(text)]
    /\ UNCHANGED <<oauthVars, sessVars>>

NextSlug == \E text \in Texts : slugify(text)

SpecSlug == Init /\ [][NextSlug]_vars

\* a text of lowercase letters, digits and single hyphens between them
isSlug(s) ==
    /\ \A i \in 1..Len(s) : s[i] \in {"a", "b", "e", "r", "1", "-"}
    /\ \A i \in 1..(Len(s) - 1) : ~(s[i] = "-" /\ s[i + 1] = "-")
    /\ Len(s) > 0 => (s[1] # "-" /\ s[Len(s)] # "-")

\* C37: the slug of every text over the alphabet consists of lowercase
\* letters, digits and single hyphens, and neither starts nor ends with a
\* hyphen.
C37_SlugShape ==
    last.op = "slugify" => isSlug(last.content)

====
